---- MODULE Spec2Model ----
(***************************************************************************)
(* tealviz: basic-block extraction over a stream of TEAL lines, and the    *)
(* readline adapter that drives it.  Strings are sequences of one-         *)
(* character strings so that the classifiers' text tests are computed.     *)
(***************************************************************************)
EXTENDS Integers, Sequences, FiniteSets, TLC

\* Largest number of 'line' events before 'close'.
MaxLen == 4

\* JavaScript's undefined and null, kept apart from every string.
undefined == <<"undefined">>
null == <<"null">>

\* The input vocabulary: the lines stdin may deliver.
Lines ==
  { <<"x", ":">>,
    <<"b", "0", ":">>,
    <<"b", " ", "x">>,
    <<"b", "n", "z", " ", "x">>,
    <<"b", "z", " ", "b", "0">>,
    <<"e", "r", "r">>,
    <<"r", "e", "t", "u", "r", "n">>,
    <<"i", "n", "t", " ", "1">>,
    <<"e", "r", "r", ":">> }

\* JavaScript truthiness of a string-or-undefined value.
Truthy(s) == s # undefined /\ s # null /\ s # <<>>

\* String.prototype.indexOf for one character: 0-based, -1 when absent.
IndexOf(s, ch) ==
  IF \E k \in 1..Len(s) : s[k] = ch
  THEN (CHOOSE k \in 1..Len(s) : s[k] = ch /\ \A j \in 1..(k-1) : s[j] # ch) - 1
  ELSE -1

\* line.split(' ')[0]
FirstToken(line) ==
  LET sp == IndexOf(line, " ")
  IN IF sp < 0 THEN line ELSE SubSeq(line, 1, sp)

\* String.prototype.startsWith / a ^-anchored literal
StartsWith(s, p) == Len(s) >= Len(p) /\ SubSeq(s, 1, Len(p)) = p

isTerminator(line) ==
  StartsWith(line, <<"e", "r", "r">>) \/ StartsWith(line, <<"r", "e", "t", "u", "r", "n">>)

getLabelMaybe(line) ==
  LET colonIdx == IndexOf(FirstToken(line), ":")
  IN IF colonIdx < 0 THEN null ELSE SubSeq(line, 1, colonIdx)

\* /^(bnz|bz|b) (.*)/ : alternatives tried left to right, then one space.
getBranchMaybe(line) ==
  IF StartsWith(line, <<"b", "n", "z", " ">>)
    THEN << <<"b", "n", "z">>, SubSeq(line, 5, Len(line)) >>
  ELSE IF StartsWith(line, <<"b", "z", " ">>)
    THEN << <<"b", "z">>, SubSeq(line, 4, Len(line)) >>
  ELSE IF StartsWith(line, <<"b", " ">>)
    THEN << <<"b">>, SubSeq(line, 3, Len(line)) >>
  ELSE null

VARIABLES
  lines,              \* module-level array filled by the 'line' handler
  pc,                 \* position of the process
  pos,                \* number of input lines the for-of loop has consumed
  heap,               \* the ConstructingBlock objects, by identity
  blocks,             \* extractBlocks' blocks: identities into heap
  curBlock,           \* identity of the current block
  labels,             \* label name -> identity of the block it opened
  constructedBlocks,  \* the Block objects, in order
  i,                  \* the linking loop's counter
  error,              \* the label named by the thrown Error
  result,             \* the value extractBlocks returned
  stdout              \* what console.log wrote

vars == <<lines, pc, pos, heap, blocks, curBlock, labels, constructedBlocks,
          i, error, result, stdout>>

\* {body: [], dead}
EmptyBlock(dead) ==
  [body |-> <<>>, label |-> undefined, flow |-> FALSE, branch |-> undefined,
   dead |-> dead, realBlock |-> 0]

\* slip: a block opened by a label is marked dead
LabelBlock_Dead(line, label) ==
  [body |-> <<line>>, label |-> label, flow |-> FALSE, branch |-> undefined,
   dead |-> TRUE, realBlock |-> 0]

\* slip: the label line is not pushed into the block it opens
LabelBlock_NoLine(line, label) ==
  [body |-> <<>>, label |-> label, flow |-> FALSE, branch |-> undefined,
   dead |-> FALSE, realBlock |-> 0]

\* {body: [], dead: false, label} followed by body.push(line)
LabelBlock(line, label) ==
  [body |-> <<line>>, label |-> label, flow |-> FALSE, branch |-> undefined,
   dead |-> FALSE, realBlock |-> 0]

\* labels[label] = curBlock
SetLabel(tbl, label, id) ==
  [n \in (DOMAIN tbl) \cup {label} |-> IF n = label THEN id ELSE tbl[n]]

Init ==
  /\ lines = <<>>
  /\ pc = "reading"
  /\ pos = 0
  /\ heap = <<>>
  /\ blocks = <<>>
  /\ curBlock = 0
  /\ labels = <<>>
  /\ constructedBlocks = <<>>
  /\ i = 0
  /\ error = undefined
  /\ result = undefined
  /\ stdout = <<>>

\* slip: the 'line' handler runs the extraction on what has arrived so far
OnLine_Extracts ==
  /\ pc = "reading"
  /\ Len(lines) < MaxLen
  /\ \E line \in Lines : lines' = Append(lines, line)
  /\ pc' = "loop"
  /\ pos' = 0
  /\ heap' = <<EmptyBlock(FALSE)>>
  /\ curBlock' = 1
  /\ blocks' = <<>>
  /\ labels' = <<>>
  /\ UNCHANGED <<constructedBlocks, i, error, result, stdout>>

\* rl.on('line', line => lines.push(line))
OnLine ==
  /\ pc = "reading"
  /\ Len(lines) < MaxLen
  /\ \E line \in Lines : lines' = Append(lines, line)
  /\ UNCHANGED <<pc, pos, heap, blocks, curBlock, labels, constructedBlocks,
                 i, error, result, stdout>>

\* 'close' fires: extractBlocks(lines) is entered and its locals are set up.
OnClose ==
  /\ pc = "reading"
  /\ pc' = "loop"
  /\ pos' = 0
  /\ heap' = <<EmptyBlock(FALSE)>>
  /\ curBlock' = 1
  /\ blocks' = <<>>
  /\ labels' = <<>>
  /\ UNCHANGED <<lines, constructedBlocks, i, error, result, stdout>>

\* the line the loop is about to process
CurLine == lines[pos + 1]

\* slip: a dead block is closed without the fallthrough flag
LabelLine_NoFlowWhenDead ==
  /\ pc = "loop"
  /\ pos < Len(lines)
  /\ LET label == getLabelMaybe(CurLine)
     IN /\ Truthy(label)
        /\ heap' = Append([heap EXCEPT ![curBlock].flow = ~heap[curBlock].dead],
                          LabelBlock(CurLine, label))
        /\ blocks' = Append(blocks, curBlock)
        /\ curBlock' = Len(heap) + 1
        /\ labels' = SetLabel(labels, label, Len(heap) + 1)
  /\ pos' = pos + 1
  /\ UNCHANGED <<lines, pc, constructedBlocks, i, error, result, stdout>>

\* if (label) { ... continue; }
LabelLine ==
  /\ pc = "loop"
  /\ pos < Len(lines)
  /\ LET label == getLabelMaybe(CurLine)
     IN /\ Truthy(label)
        /\ heap' = Append([heap EXCEPT ![curBlock].flow = TRUE],
                          LabelBlock(CurLine, label))
        /\ blocks' = Append(blocks, curBlock)
        /\ curBlock' = Len(heap) + 1
        /\ labels' = SetLabel(labels, label, Len(heap) + 1)
  /\ pos' = pos + 1
  /\ UNCHANGED <<lines, pc, constructedBlocks, i, error, result, stdout>>

\* const flow = branch[0] !== 'b' || undefined
BranchFlow(branch) == branch[1] # <<"b">>

\* curBlock = {body: [], dead: !!flow}
DeadAfterBranch(flow) == flow

\* if (branch) { ... continue; }
BranchLine ==
  /\ pc = "loop"
  /\ pos < Len(lines)
  /\ ~Truthy(getLabelMaybe(CurLine))
  /\ LET branch == getBranchMaybe(CurLine)
         flow == BranchFlow(branch)
     IN /\ branch # null
        /\ heap' = Append([heap EXCEPT ![curBlock].body = Append(@, CurLine),
                                       ![curBlock].flow = flow,
                                       ![curBlock].branch = branch[2]],
                          EmptyBlock(DeadAfterBranch(flow)))
        /\ blocks' = Append(blocks, curBlock)
        /\ curBlock' = Len(heap) + 1
  /\ pos' = pos + 1
  /\ UNCHANGED <<lines, pc, labels, constructedBlocks, i, error, result, stdout>>

\* slip: a terminator is appended without ending the block
TerminatorLine_StaysOpen ==
  /\ pc = "loop"
  /\ pos < Len(lines)
  /\ ~Truthy(getLabelMaybe(CurLine))
  /\ getBranchMaybe(CurLine) = null
  /\ isTerminator(CurLine)
  /\ heap' = [heap EXCEPT ![curBlock].body = Append(@, CurLine)]
  /\ pos' = pos + 1
  /\ UNCHANGED <<lines, pc, blocks, curBlock, labels, constructedBlocks,
                 i, error, result, stdout>>

\* slip: the block opened after a terminator is not marked dead
TerminatorLine_OpensLive ==
  /\ pc = "loop"
  /\ pos < Len(lines)
  /\ ~Truthy(getLabelMaybe(CurLine))
  /\ getBranchMaybe(CurLine) = null
  /\ isTerminator(CurLine)
  /\ heap' = Append([heap EXCEPT ![curBlock].body = Append(@, CurLine)],
                    EmptyBlock(FALSE))
  /\ blocks' = Append(blocks, curBlock)
  /\ curBlock' = Len(heap) + 1
  /\ pos' = pos + 1
  /\ UNCHANGED <<lines, pc, labels, constructedBlocks, i, error, result, stdout>>

\* if (isTerminator(line)) { ... continue; }
TerminatorLine ==
  /\ pc = "loop"
  /\ pos < Len(lines)
  /\ ~Truthy(getLabelMaybe(CurLine))
  /\ getBranchMaybe(CurLine) = null
  /\ isTerminator(CurLine)
  /\ heap' = Append([heap EXCEPT ![curBlock].body = Append(@, CurLine)],
                    EmptyBlock(TRUE))
  /\ blocks' = Append(blocks, curBlock)
  /\ curBlock' = Len(heap) + 1
  /\ pos' = pos + 1
  /\ UNCHANGED <<lines, pc, labels, constructedBlocks, i, error, result, stdout>>

\* slip: an ordinary line also ends the current block
OrdinaryLine_ClosesBlock ==
  /\ pc = "loop"
  /\ pos < Len(lines)
  /\ ~Truthy(getLabelMaybe(CurLine))
  /\ getBranchMaybe(CurLine) = null
  /\ ~isTerminator(CurLine)
  /\ heap' = Append([heap EXCEPT ![curBlock].body = Append(@, CurLine)],
                    EmptyBlock(FALSE))
  /\ blocks' = Append(blocks, curBlock)
  /\ curBlock' = Len(heap) + 1
  /\ pos' = pos + 1
  /\ UNCHANGED <<lines, pc, labels, constructedBlocks, i, error, result, stdout>>

\* a line that is none of the three: only curBlock.body.push(line)
OrdinaryLine ==
  /\ pc = "loop"
  /\ pos < Len(lines)
  /\ ~Truthy(getLabelMaybe(CurLine))
  /\ getBranchMaybe(CurLine) = null
  /\ ~isTerminator(CurLine)
  /\ heap' = [heap EXCEPT ![curBlock].body = Append(@, CurLine)]
  /\ pos' = pos + 1
  /\ UNCHANGED <<lines, pc, blocks, curBlock, labels, constructedBlocks,
                 i, error, result, stdout>>

\* slip: the remaining block is appended only when it holds a line
EndOfStream_SkipsEmpty ==
  /\ pc = "loop"
  /\ pos = Len(lines)
  /\ blocks' = IF heap[curBlock].body = <<>> THEN blocks ELSE Append(blocks, curBlock)
  /\ pc' = "filter"
  /\ UNCHANGED <<lines, pos, heap, curBlock, labels, constructedBlocks,
                 i, error, result, stdout>>

\* the loop is exhausted: blocks.push(curBlock)
EndOfStream ==
  /\ pc = "loop"
  /\ pos = Len(lines)
  /\ blocks' = Append(blocks, curBlock)
  /\ pc' = "filter"
  /\ UNCHANGED <<lines, pos, heap, curBlock, labels, constructedBlocks,
                 i, error, result, stdout>>

\* slip: the filter keeps every block
KeepBlock_All(block) == TRUE

\* slip: the filter also drops one-line blocks
KeepBlock_DropsSingletons(block) == Len(block.body) > 1

\* block => block.body.length
KeepBlock(block) == Len(block.body) # 0

\* blocks = blocks.filter(block => block.body.length)
FilterEmpty ==
  /\ pc = "filter"
  /\ blocks' = SelectSeq(blocks, LAMBDA id : KeepBlock(heap[id]))
  /\ pc' = "map"
  /\ UNCHANGED <<lines, pos, heap, curBlock, labels, constructedBlocks,
                 i, error, result, stdout>>

\* decimal text of a natural number, as a template literal prints it
RECURSIVE NatToStr(_)
NatToStr(n) ==
  LET digit == <<"0", "1", "2", "3", "4", "5", "6", "7", "8", "9">>[(n % 10) + 1]
  IN IF n < 10 THEN <<digit>> ELSE Append(NatToStr(n \div 10), digit)

\* `b${idx}`
SynthLabel(idx) == <<"b">> \o NatToStr(idx)

\* slip: the declared label is ignored when naming a Block
BlockLabel_AlwaysSynth(block, idx) == SynthLabel(idx)

\* block.label || `b${idx}`
BlockLabel(block, idx) == IF Truthy(block.label) THEN block.label ELSE SynthLabel(idx)

\* new Block(block.body, block.label || `b${idx}`, block.dead); idx is 0-based
NewBlock(block, idx) ==
  [contents |-> block.body, label |-> BlockLabel(block, idx), dead |-> block.dead,
   flow |-> 0, branch |-> 0]

\* slip: Blocks are numbered by their place in the sequence before the filter
Construct_PreFilterIndex ==
  /\ pc = "map"
  /\ constructedBlocks' = [k \in 1..Len(blocks) |-> NewBlock(heap[blocks[k]], blocks[k] - 1)]
  /\ heap' = [id \in 1..Len(heap) |->
               IF \E k \in 1..Len(blocks) : blocks[k] = id
               THEN [heap[id] EXCEPT !.realBlock = CHOOSE k \in 1..Len(blocks) : blocks[k] = id]
               ELSE heap[id]]
  /\ i' = 1
  /\ pc' = "link"
  /\ UNCHANGED <<lines, pos, blocks, curBlock, labels, error, result, stdout>>

\* const constructedBlocks = blocks.map(...): the k-th Block object is named k
\* (1-based); 0 stands for an undefined reference.
Construct ==
  /\ pc = "map"
  /\ constructedBlocks' = [k \in 1..Len(blocks) |-> NewBlock(heap[blocks[k]], k - 1)]
  /\ heap' = [id \in 1..Len(heap) |->
               IF \E k \in 1..Len(blocks) : blocks[k] = id
               THEN [heap[id] EXCEPT !.realBlock = CHOOSE k \in 1..Len(blocks) : blocks[k] = id]
               ELSE heap[id]]
  /\ i' = 1
  /\ pc' = "link"
  /\ UNCHANGED <<lines, pos, blocks, curBlock, labels, error, result, stdout>>

\* element k of a JavaScript array (0-based)
At(arr, k) == arr[k + 1]

\* the reference held in constructedBlocks[k] (0-based k)
Ref(k) == k + 1

\* labels[name]?.realBlock
LookupLabel(tbl, hp, name) ==
  IF name \in DOMAIN tbl THEN hp[tbl[name]].realBlock ELSE 0

\* slip: the fallthrough link is taken from index i - 1
FlowSuccessor_Self(k) == Ref(k - 1)

\* constructedBlocks[i] as the fallthrough successor of constructedBlocks[i - 1]
FlowSuccessor(k) == Ref(k)

\* one iteration of the linking loop, for (let i = 1; i < blocks.length; i++)
LinkStep ==
  /\ pc = "link"
  /\ i < Len(blocks)
  /\ LET block == heap[At(blocks, i - 1)]
         me == Ref(i - 1)
         withFlow == IF block.flow
                     THEN [constructedBlocks EXCEPT ![me].flow = FlowSuccessor(i)]
                     ELSE constructedBlocks
         target == LookupLabel(labels, heap, block.branch)
     IN IF Truthy(block.branch)
        THEN /\ constructedBlocks' = [withFlow EXCEPT ![me].branch = target]
             /\ IF target = 0
                THEN /\ pc' = "thrown"
                     /\ error' = block.branch
                     /\ i' = i
                ELSE /\ pc' = pc
                     /\ error' = error
                     /\ i' = i + 1
        ELSE /\ constructedBlocks' = withFlow
             /\ i' = i + 1
             /\ UNCHANGED <<pc, error>>
  /\ UNCHANGED <<lines, pos, heap, blocks, curBlock, labels, result, stdout>>

\* return constructedBlocks
Return ==
  /\ pc = "link"
  /\ ~(i < Len(blocks))
  /\ result' = constructedBlocks
  /\ pc' = "returned"
  /\ UNCHANGED <<lines, pos, heap, blocks, curBlock, labels, constructedBlocks,
                 i, error, stdout>>

\* .replace(/"/g, '\'') on one line of the node text
ReplaceQuotes(line) == [k \in 1..Len(line) |-> IF line[k] = "\"" THEN "'" ELSE line[k]]

\* the relations pushed for the blocks k..Len(bs), in order
RECURSIVE Relations(_, _)
Relations(bs, k) ==
  IF k > Len(bs) THEN <<>>
  ELSE (IF bs[k].flow # 0 THEN << <<bs[k].label, bs[bs[k].flow].label>> >> ELSE <<>>)
       \o (IF bs[k].branch # 0 THEN << <<bs[k].label, bs[bs[k].branch].label>> >> ELSE <<>>)
       \o Relations(bs, k + 1)

\* the digraph text, kept as its node and edge statements
vizBlocks(bs) ==
  [nodes |-> [k \in 1..Len(bs) |->
                [name |-> bs[k].label,
                 text |-> [j \in 1..Len(bs[k].contents) |-> ReplaceQuotes(bs[k].contents[j])]]],
   relations |-> Relations(bs, 1)]

\* console.log(vizBlocks(...))
LogGraph ==
  /\ pc = "returned"
  /\ stdout' = Append(stdout, vizBlocks(result))
  /\ pc' = "printed"
  /\ UNCHANGED <<lines, pos, heap, blocks, curBlock, labels, constructedBlocks,
                 i, error, result>>

\* process.exit(0)
Exit ==
  /\ pc = "printed"
  /\ pc' = "exited"
  /\ UNCHANGED <<lines, pos, heap, blocks, curBlock, labels, constructedBlocks,
                 i, error, result, stdout>>

\* the Error leaves the 'close' handler uncaught: nothing is printed
Crash ==
  /\ pc = "thrown"
  /\ pc' = "crashed"
  /\ UNCHANGED <<lines, pos, heap, blocks, curBlock, labels, constructedBlocks,
                 i, error, result, stdout>>

Next ==
  \/ OnLine
  \/ OnClose
  \/ LabelLine
  \/ BranchLine
  \/ TerminatorLine
  \/ OrdinaryLine
  \/ EndOfStream
  \/ FilterEmpty
  \/ Construct
  \/ LinkStep
  \/ Return
  \/ LogGraph
  \/ Exit
  \/ Crash

Spec == Init /\ [][Next]_vars

(***************************************************************************)
(* Vocabulary of the properties                                            *)
(***************************************************************************)

\* extractBlocks has returned its graph
Returned == pc \in {"returned", "printed", "exited"}

\* extractBlocks has thrown
Failed == pc \in {"thrown", "crashed"}

\* some line of the stream declares the label
Declared(name) ==
  \E k \in 1..Len(lines) : Truthy(getLabelMaybe(lines[k])) /\ getLabelMaybe(lines[k]) = name

\* the line takes the label path of the loop (line 50)
IsLabelLine(line) == Truthy(getLabelMaybe(line))

\* the line takes the branch path of the loop (line 63)
IsBranchLine(line) == ~IsLabelLine(line) /\ getBranchMaybe(line) # null

\* the line takes the terminator path of the loop (line 74)
IsTerminatorLine(line) ==
  ~IsLabelLine(line) /\ getBranchMaybe(line) = null /\ isTerminator(line)

\* the line takes none of the three paths
IsOrdinaryLine(line) ==
  ~IsLabelLine(line) /\ ~IsBranchLine(line) /\ ~IsTerminatorLine(line)

\* last line of a non-empty body
LastLine(body) == body[Len(body)]

\* the constructing block behind the k-th finished block
Constructing(k) == heap[blocks[k]]

\* the branch instruction closing a body, or null
ClosingBranch(body) == IF Len(body) = 0 THEN null ELSE getBranchMaybe(body[Len(body)])

\* the bodies of the finished blocks k..Len(bs), one after the other
RECURSIVE ConcatBodies(_, _)
ConcatBodies(bs, k) ==
  IF k > Len(bs) THEN <<>> ELSE bs[k].contents \o ConcatBodies(bs, k + 1)

(***************************************************************************)
(* C1                                                                      *)
(***************************************************************************)

\* C1: whenever some block's branch-target name is declared nowhere in the
\* stream, extractBlocks does not return: it throws, the error names an
\* undeclared target, and no graph is produced.
C1_UnresolvedTargetAlwaysFails ==
  /\ Returned =>
       \A id \in 1..Len(heap) : Truthy(heap[id].branch) => Declared(heap[id].branch)
  /\ Failed => /\ result = undefined
               /\ ~Declared(error)
               /\ \E id \in 1..Len(heap) : heap[id].branch = error

(***************************************************************************)
(* C2                                                                      *)
(***************************************************************************)

\* C2: in a returned graph every block whose branch-target name is set, and
\* declared somewhere in the stream, has a branch successor, the last block
\* included.
C2_EveryBranchResolved ==
  Returned =>
    \A k \in 1..Len(result) :
      (Truthy(Constructing(k).branch) /\ Declared(Constructing(k).branch))
        => result[k].branch # 0

(***************************************************************************)
(* C3                                                                      *)
(***************************************************************************)

\* C3: in a returned graph a branch successor carries the recorded
\* branch-target name as its label and opens with the declaration of it.
C3_BranchSuccessorOpensWithLabel ==
  Returned =>
    \A k \in 1..Len(result) :
      result[k].branch # 0 =>
        LET succ == result[result[k].branch]
        IN /\ succ.label = Constructing(k).branch
           /\ Len(succ.contents) > 0
           /\ getLabelMaybe(succ.contents[1]) = Constructing(k).branch

\* a returned graph with a backward and a forward branch edge
C3_Witness ==
  /\ Returned
  /\ \E j, k \in 1..Len(result) :
       /\ result[j].branch # 0 /\ result[j].branch <= j
       /\ result[k].branch # 0 /\ result[k].branch > k

(***************************************************************************)
(* C4                                                                      *)
(***************************************************************************)

\* C4: in a returned graph the fallthrough successor of the k-th block,
\* when present, is the (k+1)-th block of the finished list.
C4_FallthroughIsNextBlock ==
  Returned =>
    \A k \in 1..Len(result) :
      result[k].flow # 0 => k < Len(result) /\ result[k].flow = k + 1

\* a block whose fallthrough edge and branch edge go to different blocks,
\* in a stream where an empty block was discarded
C4_Witness ==
  /\ Returned
  /\ Len(heap) > Len(result)
  /\ \E k \in 1..Len(result) :
       result[k].flow # 0 /\ result[k].branch # 0 /\ result[k].flow # result[k].branch

(***************************************************************************)
(* C5                                                                      *)
(***************************************************************************)

\* C5: right after the builder has processed a branch line, the block it
\* opened is dead exactly when the branch was the unconditional b.
C5_DeadIffUnconditional ==
  (pc = "loop" /\ pos > 0 /\ ~Truthy(getLabelMaybe(lines[pos]))
     /\ getBranchMaybe(lines[pos]) # null)
    => (heap[curBlock].dead <=> (getBranchMaybe(lines[pos])[1] = <<"b">>))

(***************************************************************************)
(* C6                                                                      *)
(***************************************************************************)

\* C6: no two blocks of a returned graph carry the same label.
C6_LabelsDistinct ==
  Returned =>
    \A j, k \in 1..Len(result) : j # k => result[j].label # result[k].label

(***************************************************************************)
(* C7                                                                      *)
(***************************************************************************)

\* C7: the bodies of a returned graph's blocks, concatenated in list order,
\* are the input lines.
C7_BodiesPartitionInput ==
  Returned => ConcatBodies(result, 1) = lines

\* a returned graph of several blocks, one of them opened by a label and
\* one holding more than one line
C7_Witness ==
  /\ Returned
  /\ Len(result) >= 2
  /\ \E k \in 1..Len(result) : Truthy(Constructing(k).label)
  /\ \E k \in 1..Len(result) : Len(result[k].contents) >= 2

(***************************************************************************)
(* C8                                                                      *)
(***************************************************************************)

\* C8: every block of a returned graph has a non-empty body.
C8_NoEmptyFinishedBlock ==
  Returned => \A k \in 1..Len(result) : Len(result[k].contents) > 0

\* a returned, non-empty graph for which an empty leading block, an empty
\* block after a closer and the empty trailing block were all built
C8_Witness ==
  /\ Returned
  /\ Len(result) > 0
  /\ heap[1].body = <<>>
  /\ heap[Len(heap)].body = <<>>
  /\ Len(heap) >= Len(result) + 3

(***************************************************************************)
(* C9                                                                      *)
(***************************************************************************)

\* C9: extractBlocks throws only for a branch target that no line declares,
\* and once the Block objects exist every registered label maps to a
\* constructing block that survived the filter.
C9_OnlyUnresolvedTargetFails ==
  /\ Failed => ~Declared(error)
  /\ pc \in {"link", "thrown", "returned"} =>
       \A n \in DOMAIN labels :
         /\ heap[labels[n]].realBlock # 0
         /\ blocks[heap[labels[n]].realBlock] = labels[n]

\* a returned graph for a stream that declares a label twice and branches
\* to it from a block that is not the last
C9_Witness ==
  /\ Returned
  /\ \E j, k \in 1..Len(lines) :
       j < k /\ Truthy(getLabelMaybe(lines[j])) /\ getLabelMaybe(lines[j]) = getLabelMaybe(lines[k])
  /\ \E k \in 1..Len(result) : result[k].branch # 0

(***************************************************************************)
(* C10                                                                     *)
(***************************************************************************)

\* C10: in a returned graph a block closed by bnz/bz has both successors,
\* and a block closed by b has a branch successor and no fallthrough.
C10_SuccessorsMatchBranchKind ==
  Returned =>
    \A k \in 1..Len(result) :
      LET br == ClosingBranch(result[k].contents)
      IN br # null =>
           IF br[1] = <<"b">>
           THEN result[k].branch # 0 /\ result[k].flow = 0
           ELSE result[k].branch # 0 /\ result[k].flow # 0

(***************************************************************************)
(* C11                                                                     *)
(***************************************************************************)

\* what the returned graph shows of a terminator: the block it closes has
\* no successor, an unlabeled block right behind it is dead, and the stream
\* ["return"] gives the single block b0, not dead, without successors
C11_Finished ==
  Returned =>
    /\ \A k \in 1..Len(result) :
         IsTerminatorLine(LastLine(result[k].contents)) =>
           result[k].flow = 0 /\ result[k].branch = 0
    /\ \A k \in 2..Len(result) :
         (IsTerminatorLine(LastLine(result[k - 1].contents))
            /\ ~IsLabelLine(result[k].contents[1])) => result[k].dead
    /\ lines = << <<"r", "e", "t", "u", "r", "n">> >> =>
         result = << [contents |-> lines, label |-> <<"b", "0">>, dead |-> FALSE,
                      flow |-> 0, branch |-> 0] >>

\* right after the loop has processed a terminator the current block is a
\* fresh one: empty and dead
C11_Opened ==
  (pc = "loop" /\ pos > 0 /\ IsTerminatorLine(lines[pos])) =>
    heap[curBlock].body = <<>> /\ heap[curBlock].dead

\* processing a terminator closes the current block and leaves its dead,
\* flow and branch fields as they were
C11_Step ==
  (pc = "loop" /\ pos < Len(lines) /\ IsTerminatorLine(lines[pos + 1]) /\ pos' = pos + 1) =>
    /\ blocks' = Append(blocks, curBlock)
    /\ heap'[curBlock].dead = heap[curBlock].dead
    /\ heap'[curBlock].flow = FALSE
    /\ heap'[curBlock].branch = undefined

\* C11: a block closed by a terminator line (err/return) gets neither a
\* fallthrough nor a branch successor, the terminator leaves that block's
\* dead flag unchanged, the block opened after it is dead, and ["return"]
\* yields one block, not dead, without successors.
C11_TerminatorClosesWithoutEdges ==
  [](C11_Finished /\ C11_Opened) /\ [][C11_Step]_vars

\* a returned graph in which a dead block closed by a terminator is
\* followed by an unlabeled block
C11_Witness ==
  /\ Returned
  /\ \E k \in 2..Len(result) :
       /\ result[k - 1].dead
       /\ IsTerminatorLine(LastLine(result[k - 1].contents))
       /\ ~IsLabelLine(result[k].contents[1])

(***************************************************************************)
(* C12                                                                     *)
(***************************************************************************)

\* the number of lines declaring the label
Declarations(name) ==
  Cardinality({k \in 1..Len(lines) : IsLabelLine(lines[k]) /\ getLabelMaybe(lines[k]) = name})

\* the position of the last line declaring the label
LastDeclaration(name) ==
  CHOOSE k \in 1..Len(lines) :
    /\ IsLabelLine(lines[k]) /\ getLabelMaybe(lines[k]) = name
    /\ \A j \in (k + 1)..Len(lines) :
         ~(IsLabelLine(lines[j]) /\ getLabelMaybe(lines[j]) = name)

\* the number of input lines held by the finished blocks before the k-th
RECURSIVE LinesBefore(_, _)
LinesBefore(bs, k) ==
  IF k <= 1 THEN 0 ELSE LinesBefore(bs, k - 1) + Len(bs[k - 1].contents)

\* C12: for a label declared more than once, no error names it, and in the
\* returned graph every block branching to it has as branch successor the
\* block that starts at the last declaration of the label.
C12_LastDeclarationWins ==
  /\ Failed => Declarations(error) < 2
  /\ Returned =>
       \A k \in 1..Len(result) :
         LET name == Constructing(k).branch
         IN (Truthy(name) /\ Declarations(name) >= 2) =>
              /\ result[k].branch # 0
              /\ LinesBefore(result, result[k].branch) + 1 = LastDeclaration(name)

(***************************************************************************)
(* C14                                                                     *)
(***************************************************************************)

\* the k-th finished block was the current block when the label line that
\* opens the (k+1)-th was processed
ClosedByLabel(k) ==
  /\ k < Len(result)
  /\ IsLabelLine(result[k + 1].contents[1])
  /\ ~IsBranchLine(LastLine(result[k].contents))
  /\ ~IsTerminatorLine(LastLine(result[k].contents))

\* C14: in a returned graph a block closed by a following label line falls
\* through to the block that label opens, whether or not it is dead.
C14_LabelClosedBlockFallsThrough ==
  Returned =>
    \A k \in 1..Len(result) :
      ClosedByLabel(k) =>
        /\ result[k].flow = k + 1
        /\ result[k + 1].label = getLabelMaybe(result[k + 1].contents[1])

\* a returned graph with a dead block and a live block, each closed by a
\* label line
C14_Witness ==
  /\ Returned
  /\ \E j, k \in 1..Len(result) :
       /\ ClosedByLabel(j) /\ result[j].dead /\ result[j].flow = j + 1
       /\ ClosedByLabel(k) /\ ~result[k].dead /\ result[k].flow = k + 1

(***************************************************************************)
(* C15                                                                     *)
(***************************************************************************)

\* C15: in a returned graph a block opened by a label declaration is named
\* by the declared label, and every other block is named b followed by its
\* zero-based index in the finished (post-filter) list.
C15_LabelOrFinishedIndex ==
  Returned =>
    \A k \in 1..Len(result) :
      IF IsLabelLine(result[k].contents[1])
      THEN result[k].label = getLabelMaybe(result[k].contents[1])
      ELSE result[k].label = <<"b">> \o NatToStr(k - 1)

\* a returned graph with a labelled block and an unlabeled block whose place
\* in the finished list differs from its place before the filter
C15_Witness ==
  /\ Returned
  /\ \E k \in 1..Len(result) : IsLabelLine(result[k].contents[1])
  /\ \E k \in 1..Len(result) : ~IsLabelLine(result[k].contents[1]) /\ blocks[k] # k

(***************************************************************************)
(* C16                                                                     *)
(***************************************************************************)

\* in a returned graph every block but the first starts at a label line or
\* right behind a branch or terminator line
C16_Boundaries ==
  Returned =>
    \A k \in 2..Len(result) :
      \/ IsLabelLine(result[k].contents[1])
      \/ IsBranchLine(LastLine(result[k - 1].contents))
      \/ IsTerminatorLine(LastLine(result[k - 1].contents))

\* the loop's step over an ordinary line appends it to the current block's
\* body and changes nothing else of the builder's state
C16_Step ==
  (pc = "loop" /\ pos < Len(lines) /\ IsOrdinaryLine(lines[pos + 1]) /\ pos' = pos + 1) =>
    /\ heap' = [heap EXCEPT ![curBlock].body = Append(@, lines[pos + 1])]
    /\ blocks' = blocks
    /\ curBlock' = curBlock
    /\ labels' = labels

\* C16: block boundaries fall only at label, branch and terminator lines,
\* and processing an ordinary line only appends it to the current block's
\* body, leaving the block sequence, the label table and the block's label,
\* flow, branch-target and dead fields unchanged.
C16_OrdinaryLineOnlyAppends ==
  []C16_Boundaries /\ [][C16_Step]_vars

\* a returned graph of several blocks in which an ordinary line follows
\* another line inside a block
C16_Witness ==
  /\ Returned
  /\ Len(result) >= 2
  /\ \E k \in 1..Len(result) : \E j \in 2..Len(result[k].contents) :
       IsOrdinaryLine(result[k].contents[j])

(***************************************************************************)
(* C17                                                                     *)
(***************************************************************************)

\* the number of label, branch and terminator lines of the stream
Closers ==
  Cardinality({k \in 1..Len(lines) : ~IsOrdinaryLine(lines[k])})

\* C17: when the loop and the final push are done and nothing is filtered
\* yet, the sequence holds one block more than the stream has label, branch
\* and terminator lines and ends with the current block; after a closing
\* branch or terminator that block is empty and the one before it is not;
\* the empty stream returns the empty list and raises no error.
C17_TrailingBlockAppended ==
  /\ pc = "filter" =>
       /\ Len(blocks) = Closers + 1
       /\ blocks[Len(blocks)] = curBlock
       /\ (Len(lines) > 0 /\ (IsBranchLine(lines[Len(lines)])
                                \/ IsTerminatorLine(lines[Len(lines)]))) =>
            /\ heap[blocks[Len(blocks)]].body = <<>>
            /\ heap[blocks[Len(blocks) - 1]].body # <<>>
  /\ lines = <<>> => ~Failed /\ (Returned => result = <<>>)

\* the unfiltered sequence of a stream that has an ordinary line and ends
\* on a branch or terminator
C17_Witness ==
  /\ pc = "filter"
  /\ Len(blocks) >= 3
  /\ \E k \in 1..Len(lines) : IsOrdinaryLine(lines[k])
  /\ IsBranchLine(lines[Len(lines)]) \/ IsTerminatorLine(lines[Len(lines)])

(***************************************************************************)
(* C18                                                                     *)
(***************************************************************************)

\* the array changes only by a 'line' event appending at its end, and such
\* an event leaves the process waiting for input
C18_LineOnlyCollects ==
  (lines' # lines) =>
    /\ pc = "reading" /\ pc' = "reading"
    /\ Len(lines') = Len(lines) + 1
    /\ SubSeq(lines', 1, Len(lines)) = lines
    /\ UNCHANGED <<pos, heap, blocks, curBlock, labels, constructedBlocks,
                   i, error, result, stdout>>

\* extractBlocks is entered from the waiting state alone, which is never
\* entered again, and it starts at the first line of the array
C18_EnteredOnce ==
  /\ (pc # "loop" /\ pc' = "loop") => (pc = "reading" /\ pos' = 0 /\ lines' = lines)
  /\ pc # "reading" => pc' # "reading"

\* the loop has consumed the whole array when it ends, nothing is printed
\* before the graph is returned, and at exit exactly the rendering of the
\* returned graph has been printed
C18_PrintedBeforeExit ==
  /\ pc = "filter" => pos = Len(lines)
  /\ ~Returned => stdout = <<>>
  /\ pc = "exited" => stdout = <<vizBlocks(result)>>

\* C18: extractBlocks is invoked once, after 'close' only, on all the lines
\* received in arrival order; no 'line' event starts it; process.exit is
\* reached only after the rendered graph was printed.
C18_ExtractOnceAfterClose ==
  []C18_PrintedBeforeExit /\ [][C18_LineOnlyCollects /\ C18_EnteredOnce]_vars

\* the process has exited after printing the graph of a stream of several
\* lines
C18_Witness ==
  /\ pc = "exited"
  /\ Len(lines) >= 3
  /\ Len(stdout) = 1
  /\ Len(stdout[1].nodes) >= 2

(***************************************************************************)
(* C19                                                                     *)
(***************************************************************************)

\* C19: in every block of a returned graph a label line is the first body
\* line and a branch or terminator line is the last body line.
C19_BasicBlockShape ==
  Returned =>
    \A k \in 1..Len(result) : \A j \in 1..Len(result[k].contents) :
      LET line == result[k].contents[j]
      IN /\ IsLabelLine(line) => j = 1
         /\ (IsBranchLine(line) \/ IsTerminatorLine(line)) => j = Len(result[k].contents)

\* a returned graph with a block that opens with a label and ends with a
\* branch, and a block that ends with a terminator
C19_Witness ==
  /\ Returned
  /\ \E k \in 1..Len(result) :
       /\ Len(result[k].contents) >= 2
       /\ IsLabelLine(result[k].contents[1])
       /\ IsBranchLine(LastLine(result[k].contents))
  /\ \E k \in 1..Len(result) :
       /\ Len(result[k].contents) >= 2
       /\ IsTerminatorLine(LastLine(result[k].contents))

(***************************************************************************)
(* C20                                                                     *)
(***************************************************************************)

\* C20: in a returned graph a dead block is unlabeled, is not the first
\* block, and starts right behind a branch or terminator line; a block
\* opened by a label and the first block are never dead.
C20_DeadOnlyAfterCloser ==
  Returned =>
    \A k \in 1..Len(result) :
      result[k].dead =>
        /\ k > 1
        /\ ~IsLabelLine(result[k].contents[1])
        /\ LinesBefore(result, k) >= 1
        /\ LET prev == lines[LinesBefore(result, k)]
           IN IsBranchLine(prev) \/ IsTerminatorLine(prev)

\* a returned graph with a dead block and, right behind a terminator, a
\* block opened by a label
C20_Witness ==
  /\ Returned
  /\ \E k \in 1..Len(result) : result[k].dead
  /\ \E k \in 2..Len(result) :
       /\ IsLabelLine(result[k].contents[1])
       /\ IsTerminatorLine(LastLine(result[k - 1].contents))
       /\ ~result[k].dead
====
